---- MODULE Spec2Model ----
(***************************************************************************)
(* Sub-transaction barrier of dtmcli (src/dtmcli/barrier.go).              *)
(*                                                                         *)
(* Every call of ThroughBarrierCall is a process that walks through the    *)
(* statements of the function; the steps are cut at the statements that    *)
(* touch the database, which is where concurrent calls interleave.  The    *)
(* table dtm_barrier.barrier is a map from its unique key                  *)
(* (gid, branch_id, branch_type) to a row; a transaction keeps the rows    *)
(* it wrote in pending[c] until Commit copies them into the table.  An     *)
(* "insert ignore" on a key another open transaction has written waits     *)
(* for that transaction to end (unique-index lock of the store).           *)
(*                                                                         *)
(* Calls is the set of calls that can be in flight at the same time.  A    *)
(* call that has run its deferred function is at "done" with the values    *)
(* its caller receives; Return hands them over and frees the place for     *)
(* the next call.  Return touches nothing but the call's own variables,    *)
(* so it is scheduled before any other step; what the returned calls did   *)
(* is kept in the history variables.                                       *)
(***************************************************************************)
EXTENDS Integers, Sequences, FiniteSets, TLC

\* ---------------------------------------------------------------- bounds
MaxCalls == 3
MaxFail == 1
MaxConc == 2

Calls == 1..MaxConc

\* ---------------------------------------------------------------- values
Gids == {"g1"}
BranchIDs == {"b1", "b2"}
BranchTypes == {"try", "confirm", "cancel", "action", "compensate"}

TransTypes == {"tcc", "saga"}

\* the calls the transaction manager issues: tcc branches and saga branches
Contexts ==
    [TransType : {"tcc"}, Gid : Gids, BranchID : BranchIDs,
     BranchType : {"try", "confirm", "cancel"}]
    \cup
    [TransType : {"saga"}, Gid : Gids, BranchID : BranchIDs,
     BranchType : {"action", "compensate"}]

NoCtx == [TransType |-> "", Gid |-> "", BranchID |-> "", BranchType |-> ""]

Key(gid, branchID, branchType) ==
    [gid |-> gid, branch_id |-> branchID, branch_type |-> branchType]

NoRow == [trans_type |-> "", reason |-> "", result |-> <<>>]

\* interface{} values a call can return
Nil == "nil"
ResSuccess == "dtm_result:SUCCESS"
ResFailure == "dtm_result:FAILURE"
Unserializable == "chan"
BusiResults == {"R1", Unserializable}

\* error values
StoreErr == "store error"
BusiErr == "busi error"
\* panic values
NoPanic == "no panic"
BusiPanic == "busi panic"
MarshalPanic == "marshal panic"

\* common.MustMarshalString: the JSON text of a value; panics on a value
\* encoding/json cannot encode
CanMarshal(v) == v # Unserializable
MustMarshalString(v) == [json |-> v]

\* json.Unmarshal(text, &res): the error it returns, nil for the text of a
\* value MustMarshalString wrote
UnmarshalError(text) == IF text.json \in BusiResults \cup {Nil} THEN Nil ELSE "unmarshal error"

\* sql.NullString of the result column: <<>> is NULL, <<s>> a valid string s
Valid(result) == result # <<>>

VARIABLES
    transOf,          \* the kind of each global transaction, fixed when it is created
    branches,         \* the branch ids the transaction manager calls with
    table,            \* committed rows of dtm_barrier.barrier, by unique key
    busiDB,           \* business writes made through db, counted by the key of the call
    fails,            \* store errors injected so far
    started,          \* calls of ThroughBarrierCall made so far
    okCommitted,      \* history: results of the calls that ran busiCall and committed
    okCount,          \* history: how many calls ran busiCall and committed, by key
    committedKeys,    \* history: own keys of the calls whose commit took effect
    suspendedKeys,    \* history: forward keys closed by a compensating commit
    nullComps,        \* history: own keys of committed null compensations
    lastEnd,          \* history: how the call that ended last failed, until a call begins
    pc,               \* position of each call in ThroughBarrierCall
    ctx,              \* transInfo of each call
    pending,          \* rows written by the call's open transaction
    originAffected,
    currentAffected,
    res,
    rerr,
    panicked,         \* panic in flight in the call
    sval,             \* marshalled result waiting for the update
    invoked,          \* how many times the call ran busiCall
    busiOut,          \* what busiCall returned to the call
    opened,           \* BeginTx gave the call a transaction
    txEnd,            \* Commit / Rollback calls made on the call's tx
    persisted,        \* the call's Commit took effect
    raised,           \* panic value the call re-raised to its caller
    originErr,        \* the poison claim of the call got a store error
    ownErr,           \* the own-slot claim or the select of the call got a store error
    prior             \* what was committed when the call began

hist == <<okCommitted, okCount, committedKeys, suspendedKeys, nullComps>>

NoLast == [key |-> Key("", "", ""), how |-> ""]

vars == <<transOf, branches, table, busiDB, fails, started, hist, lastEnd, pc, ctx, pending, originAffected, currentAffected,
          res, rerr, panicked, sval, invoked, busiOut, opened, txEnd, persisted,
          raised, originErr, ownErr, prior>>

\* the unique key of dtm_barrier.barrier, for the branches that are called
Keys == [gid : Gids, branch_id : branches, branch_type : BranchTypes]

NoPending == [k \in Keys |-> NoRow]

\* ------------------------------------------------------------ helpers

\* lines 99-102: the map lookup, "" for a branch type that is not in the map
OriginTypeWide(branchType) ==
    CASE branchType = "cancel" -> "try"
      [] branchType = "compensate" -> "action"
      [] branchType = "confirm" -> "try"
      [] OTHER -> ""
OriginType(branchType) ==
    CASE branchType = "cancel" -> "try"
      [] branchType = "compensate" -> "action"
      [] OTHER -> ""

IsCompensating(branchType) == branchType \in {"cancel", "compensate"}
IsForward(branchType) == branchType \in {"try", "action"}

\* what the transaction of call c reads at key k: its own writes, else the
\* committed row
View(c, k) == IF pending[c][k] # NoRow THEN pending[c][k] ELSE table[k]

\* the unique index: an insert on a key that another open transaction has
\* written waits until that transaction commits or rolls back
LockFree(c, k) == FALSE
LockKept(c, k) == table[k] # NoRow \/ \E d \in Calls \ {c} : pending[d][k] # NoRow
Blocked(c, k) == \E d \in Calls \ {c} : pending[d][k] # NoRow

\* "insert ignore": rows affected, 0 when the key is already there
InsertAlways(c, k) == 1
Affected(c, k) == IF View(c, k) # NoRow THEN 0 ELSE 1

\* line 106, the null compensation test
NullCompAlways(branchType, origin) == IsCompensating(branchType) /\ origin >= 0
IsNullCompensation(branchType, origin) == IsCompensating(branchType) /\ origin > 0

\* lines 89-96, the deferred function: what it does with the transaction
CommitAlways(x, err) == "commit"
CommitOnError(x, err) == IF x # NoPanic THEN "rollback" ELSE "commit"
DeferOutcome(x, err) ==
    IF x # NoPanic THEN "rollback"
    ELSE IF err # Nil THEN "rollback"
    ELSE "commit"

CanFail == fails < MaxFail

\* the calls that are between BeginTx and the end of the deferred function
InFlight == {d \in Calls : pc[d] \notin {"idle", "done"}}

\* no call is waiting to hand its result to its caller
NoneReturning == \A d \in Calls : pc[d] # "done"

OwnKey(t) == Key(t.Gid, t.BranchID, t.BranchType)
OriginKey(t) == Key(t.Gid, t.BranchID, OriginType(t.BranchType))

\* what the calls that ended before this one have left behind
NoPrior == [ok |-> {}, fwdOwn |-> FALSE, suspended |-> FALSE, first |-> FALSE,
            retry |-> "", fwdErr |-> FALSE]
PriorOf(t) ==
    [ok |-> okCommitted[OwnKey(t)],
     \* the call is the retry of the call that ended last, which failed, and
     \* no other call is in flight
     retry |-> IF lastEnd.key = OwnKey(t) /\ InFlight = {} THEN lastEnd.how ELSE "",
     \* the only call so far was the forward call of the branch, and its
     \* busiCall returned an error
     fwdErr |-> /\ IsCompensating(t.BranchType)
                /\ started = 1 /\ InFlight = {}
                /\ lastEnd = [key |-> OriginKey(t), how |-> "busi error"],
     first |-> table[OwnKey(t)] = NoRow,
     fwdOwn |-> /\ IsCompensating(t.BranchType)
                /\ table[OriginKey(t)].reason = OriginType(t.BranchType),
     suspended |-> OwnKey(t) \in suspendedKeys]

\* another call begins while the call is in flight
NotAlone(p) == [p EXCEPT !.retry = "", !.fwdErr = FALSE]

\* how a call that ends now failed, when the next call can be its retry
EndOf(c) ==
    IF busiOut[c] = BusiErr THEN [key |-> OwnKey(ctx[c]), how |-> "busi error"]
    ELSE IF panicked[c] = MarshalPanic THEN [key |-> OwnKey(ctx[c]), how |-> "marshal panic"]
    ELSE NoLast

\* ---------------------------------------------------------------- Init
Start ==
    /\ transOf \in [Gids -> TransTypes]
    /\ table = [k \in Keys |-> NoRow]
    /\ busiDB = [k \in Keys |-> 0]
    /\ started = 0
    /\ okCommitted = [k \in Keys |-> {}]
    /\ okCount = [k \in Keys |-> 0]
    /\ committedKeys = {}
    /\ suspendedKeys = {}
    /\ nullComps = {}
    /\ lastEnd = NoLast
    /\ pc = [c \in Calls |-> "idle"]
    /\ ctx = [c \in Calls |-> NoCtx]
    /\ pending = [c \in Calls |-> NoPending]
    /\ originAffected = [c \in Calls |-> 0]
    /\ currentAffected = [c \in Calls |-> 0]
    /\ res = [c \in Calls |-> Nil]
    /\ rerr = [c \in Calls |-> Nil]
    /\ panicked = [c \in Calls |-> NoPanic]
    /\ sval = [c \in Calls |-> <<>>]
    /\ invoked = [c \in Calls |-> 0]
    /\ busiOut = [c \in Calls |-> Nil]
    /\ opened = [c \in Calls |-> FALSE]
    /\ txEnd = [c \in Calls |-> <<>>]
    /\ persisted = [c \in Calls |-> FALSE]
    /\ raised = [c \in Calls |-> NoPanic]
    /\ originErr = [c \in Calls |-> FALSE]
    /\ ownErr = [c \in Calls |-> FALSE]
    /\ prior = [c \in Calls |-> NoPrior]

\* one branch of one global transaction
Init == branches = {"b1"} /\ fails = 0 /\ Start

\* two branches of one global transaction
InitFrame == branches = BranchIDs /\ fails = 0 /\ Start

\* one branch, and a store that answers every statement without an error
InitFair == branches = {"b1"} /\ fails = MaxFail /\ Start

\* ------------------------------------------------------------- actions

\* line 83, db.BeginTx; lines 84-86 when it fails; lines 99-103 and 63-65 for a
\* branch type with no counterpart, where insertBarrier returns before any
\* statement
Begin(c, t) ==
    /\ NoneReturning
    /\ pc[c] = "idle"
    /\ t.TransType = transOf[t.Gid]
    /\ t.BranchID \in branches
    /\ \A d \in Calls : d < c => d \in InFlight
    /\ started < MaxCalls
    /\ started' = started + 1
    /\ ctx' = [ctx EXCEPT ![c] = t]
    /\ prior' = [d \in Calls |-> IF d = c THEN PriorOf(t) ELSE NotAlone(prior[d])]
    /\ lastEnd' = NoLast
    /\ \/ /\ pc' = [pc EXCEPT ![c] = IF OriginType(t.BranchType) = "" THEN "current" ELSE "origin"]
          /\ opened' = [opened EXCEPT ![c] = TRUE]
          /\ UNCHANGED <<rerr, fails>>
       \/ \* lines 84-86
          /\ CanFail
          /\ fails' = fails + 1
          /\ rerr' = [rerr EXCEPT ![c] = StoreErr]
          /\ pc' = [pc EXCEPT ![c] = "done"]
          /\ UNCHANGED opened
    /\ UNCHANGED <<transOf, branches, table, busiDB, hist, pending, originAffected, currentAffected,
                   res, panicked, sval, invoked, busiOut, txEnd, persisted, raised,
                   originErr, ownErr>>

\* the row an insertBarrier of call c writes at key k
NewRow(c, reason) ==
    [trans_type |-> ctx[c].TransType, reason |-> reason, result |-> <<>>]

\* line 103: insertBarrier on the counterpart slot, its error dropped
InsertOrigin(c) ==
    /\ NoneReturning
    /\ pc[c] = "origin"
    /\ LET t == ctx[c]
           k == OriginKey(t)
       IN \/ /\ ~Blocked(c, k)
             /\ originAffected' = [originAffected EXCEPT ![c] = Affected(c, k)]
             /\ pending' = IF Affected(c, k) = 1
                           THEN [pending EXCEPT ![c][k] = NewRow(c, t.BranchType)]
                           ELSE pending
             /\ UNCHANGED <<fails, originErr>>
          \/ \* lines 67-69, and the _ of line 103
             /\ CanFail
             /\ fails' = fails + 1
             /\ originAffected' = [originAffected EXCEPT ![c] = 0]
             /\ originErr' = [originErr EXCEPT ![c] = TRUE]
             /\ UNCHANGED pending
    /\ pc' = [pc EXCEPT ![c] = "current"]
    /\ UNCHANGED <<transOf, branches, table, busiDB, started, hist, lastEnd, ctx, currentAffected, res, rerr,
                   panicked, sval, invoked, busiOut, opened, txEnd, persisted, raised,
                   ownErr, prior>>

\* lines 106-128 up to the next statement that touches the database
AfterClaimsNoQuery(branchType, origin, current) ==
    IF IsNullCompensation(branchType, origin) THEN "nullcomp" ELSE "busi"
AfterClaims(branchType, origin, current) ==
    IF IsNullCompensation(branchType, origin) THEN "nullcomp"
    ELSE IF current = 0 THEN "query"
    ELSE "busi"

\* lines 104-109: insertBarrier on the call's own slot, then the decision
InsertCurrent(c) ==
    /\ NoneReturning
    /\ pc[c] = "current"
    /\ LET t == ctx[c]
           k == OwnKey(t)
       IN \E fail \in BOOLEAN :
            /\ IF fail
               THEN /\ CanFail
                    /\ fails' = fails + 1
                    /\ currentAffected' = [currentAffected EXCEPT ![c] = 0]
                    /\ rerr' = [rerr EXCEPT ![c] = StoreErr]
                    /\ ownErr' = [ownErr EXCEPT ![c] = TRUE]
                    /\ UNCHANGED pending
               ELSE /\ ~Blocked(c, k)
                    /\ currentAffected' = [currentAffected EXCEPT ![c] = Affected(c, k)]
                    /\ rerr' = [rerr EXCEPT ![c] = Nil]
                    /\ pending' = IF Affected(c, k) = 1
                                  THEN [pending EXCEPT ![c][k] = NewRow(c, t.BranchType)]
                                  ELSE pending
                    /\ UNCHANGED <<fails, ownErr>>
            /\ LET next == AfterClaims(t.BranchType, originAffected[c], currentAffected'[c])
               IN IF next = "nullcomp"
                  THEN /\ res' = [res EXCEPT ![c] = ResSuccess]
                       /\ pc' = [pc EXCEPT ![c] = "defer"]
                  ELSE /\ pc' = [pc EXCEPT ![c] = next]
                       /\ UNCHANGED res
    /\ UNCHANGED <<transOf, branches, table, busiDB, started, hist, lastEnd, ctx, originAffected, panicked, sval,
                   invoked, busiOut, opened, txEnd, persisted, raised, originErr, prior>>

\* lines 111-112: the where clause of the select
Matches(row, t) ==
    /\ row # NoRow
    /\ row.trans_type = t.TransType
    /\ row.reason = t.BranchType

\* lines 110-127: the select of the stored result and what is returned
Query(c) ==
    /\ NoneReturning
    /\ pc[c] = "query"
    /\ LET t == ctx[c]
           row == View(c, OwnKey(t))
       IN \/ /\ ~Matches(row, t)                       \* sql.ErrNoRows
             /\ res' = [res EXCEPT ![c] = ResFailure]
             /\ UNCHANGED <<rerr, fails, ownErr>>
          \/ /\ Matches(row, t)
             /\ Valid(row.result)
             \* line 122: res receives the value Unmarshal returns
             /\ res' = [res EXCEPT ![c] = UnmarshalError(row.result[1])]
             /\ UNCHANGED <<rerr, fails, ownErr>>
          \/ /\ Matches(row, t)
             /\ ~Valid(row.result)
             /\ res' = [res EXCEPT ![c] = ResSuccess]
             /\ UNCHANGED <<rerr, fails, ownErr>>
          \/ /\ CanFail                                \* lines 117-120
             /\ fails' = fails + 1
             /\ rerr' = [rerr EXCEPT ![c] = StoreErr]
             /\ ownErr' = [ownErr EXCEPT ![c] = TRUE]
             /\ UNCHANGED res
    /\ pc' = [pc EXCEPT ![c] = "defer"]
    /\ UNCHANGED <<transOf, branches, table, busiDB, started, hist, lastEnd, ctx, pending, originAffected,
                   currentAffected, panicked, sval, invoked, busiOut, opened, txEnd,
                   persisted, raised, originErr, prior>>

\* lines 129-131: busiCall(db), then MustMarshalString of its result.
\* busiCall is handed db, not tx: what it writes is not part of the
\* transaction of the call.
Busi(c) ==
    /\ NoneReturning
    /\ pc[c] = "busi"
    /\ invoked' = [invoked EXCEPT ![c] = @ + 1]
    /\ \/ \* busiCall panics
          /\ panicked' = [panicked EXCEPT ![c] = BusiPanic]
          /\ pc' = [pc EXCEPT ![c] = "defer"]
          /\ UNCHANGED <<res, rerr, busiOut, busiDB, sval>>
       \/ \* busiCall returns an error
          /\ res' = [res EXCEPT ![c] = Nil]
          /\ rerr' = [rerr EXCEPT ![c] = BusiErr]
          /\ busiOut' = [busiOut EXCEPT ![c] = BusiErr]
          /\ pc' = [pc EXCEPT ![c] = "defer"]
          /\ UNCHANGED <<panicked, busiDB, sval>>
       \/ \* busiCall returns a result
          \E v \in BusiResults :
            /\ res' = [res EXCEPT ![c] = v]
            /\ rerr' = [rerr EXCEPT ![c] = Nil]
            /\ busiOut' = [busiOut EXCEPT ![c] = v]
            /\ busiDB' = [busiDB EXCEPT ![OwnKey(ctx[c])] = @ + 1]
            /\ IF CanMarshal(v)
               THEN /\ sval' = [sval EXCEPT ![c] = <<MustMarshalString(v)>>]
                    /\ pc' = [pc EXCEPT ![c] = "update"]
                    /\ UNCHANGED panicked
               ELSE /\ panicked' = [panicked EXCEPT ![c] = MarshalPanic]
                    /\ pc' = [pc EXCEPT ![c] = "defer"]
                    /\ UNCHANGED sval
    /\ UNCHANGED <<transOf, branches, table, fails, started, hist, lastEnd, ctx, pending, originAffected,
                   currentAffected, opened, txEnd, persisted, raised, originErr, ownErr,
                   prior>>

\* lines 132-133: the update of the result column
Update(c) ==
    /\ NoneReturning
    /\ pc[c] = "update"
    /\ LET t == ctx[c]
           k == OwnKey(t)
           row == View(c, k)
       IN \/ /\ rerr' = [rerr EXCEPT ![c] = Nil]
             /\ pending' = IF row # NoRow /\ row.trans_type = t.TransType
                           THEN [pending EXCEPT ![c][k] = [row EXCEPT !.result = sval[c]]]
                           ELSE pending
             /\ UNCHANGED fails
          \/ /\ CanFail
             /\ fails' = fails + 1
             /\ rerr' = [rerr EXCEPT ![c] = StoreErr]
             /\ UNCHANGED pending
    /\ pc' = [pc EXCEPT ![c] = "defer"]
    /\ UNCHANGED <<transOf, branches, table, busiDB, started, hist, lastEnd, ctx, originAffected,
                   currentAffected, res, panicked, sval, invoked, busiOut, opened, txEnd,
                   persisted, raised, originErr, ownErr, prior>>

\* history of a commit that took effect (not program state)
Record(c) ==
    LET t == ctx[c]
        k == OwnKey(t)
        ranOk == invoked[c] > 0 /\ busiOut[c] \in BusiResults
    IN /\ okCommitted' = IF ranOk THEN [okCommitted EXCEPT ![k] = @ \cup {busiOut[c]}]
                         ELSE okCommitted
       /\ okCount' = IF ranOk THEN [okCount EXCEPT ![k] = @ + 1] ELSE okCount
       /\ committedKeys' = committedKeys \cup {k}
       /\ suspendedKeys' = IF IsCompensating(t.BranchType) /\ OriginKey(t) \notin committedKeys
                           THEN suspendedKeys \cup {OriginKey(t)}
                           ELSE suspendedKeys
       /\ nullComps' = IF IsCompensating(t.BranchType) /\ invoked[c] = 0 /\ res[c] = ResSuccess
                       THEN nullComps \cup {k}
                       ELSE nullComps

\* lines 87-97: the deferred function
Defer(c) ==
    /\ NoneReturning
    /\ pc[c] = "defer"
    /\ LET what == DeferOutcome(panicked[c], rerr[c])
       IN /\ txEnd' = [txEnd EXCEPT ![c] = Append(@, what)]
          /\ IF what = "rollback"
             THEN /\ raised' = [raised EXCEPT ![c] = panicked[c]]   \* panic(x)
                  /\ UNCHANGED <<transOf, table, persisted, fails, hist>>
             ELSE \/ /\ table' = [k \in Keys |-> View(c, k)]
                     /\ persisted' = [persisted EXCEPT ![c] = TRUE]
                     /\ Record(c)
                     /\ UNCHANGED <<raised, fails>>
                  \/ \* tx.Commit fails, its error is not looked at
                     /\ CanFail
                     /\ fails' = fails + 1
                     /\ UNCHANGED <<transOf, table, persisted, raised, hist>>
    /\ lastEnd' = EndOf(c)
    /\ pending' = [pending EXCEPT ![c] = NoPending]
    /\ pc' = [pc EXCEPT ![c] = "done"]
    /\ UNCHANGED <<transOf, branches, busiDB, started, ctx, originAffected, currentAffected, res, rerr,
                   panicked, sval, invoked, busiOut, opened, originErr, ownErr, prior>>

\* the call hands res, rerr (or the panic) to its caller and is over
Return(c) ==
    /\ pc[c] = "done"
    /\ pc' = [pc EXCEPT ![c] = "idle"]
    /\ ctx' = [ctx EXCEPT ![c] = NoCtx]
    /\ prior' = [prior EXCEPT ![c] = NoPrior]
    /\ originAffected' = [originAffected EXCEPT ![c] = 0]
    /\ currentAffected' = [currentAffected EXCEPT ![c] = 0]
    /\ res' = [res EXCEPT ![c] = Nil]
    /\ rerr' = [rerr EXCEPT ![c] = Nil]
    /\ panicked' = [panicked EXCEPT ![c] = NoPanic]
    /\ sval' = [sval EXCEPT ![c] = <<>>]
    /\ invoked' = [invoked EXCEPT ![c] = 0]
    /\ busiOut' = [busiOut EXCEPT ![c] = Nil]
    /\ opened' = [opened EXCEPT ![c] = FALSE]
    /\ txEnd' = [txEnd EXCEPT ![c] = <<>>]
    /\ persisted' = [persisted EXCEPT ![c] = FALSE]
    /\ raised' = [raised EXCEPT ![c] = NoPanic]
    /\ originErr' = [originErr EXCEPT ![c] = FALSE]
    /\ ownErr' = [ownErr EXCEPT ![c] = FALSE]
    /\ UNCHANGED <<transOf, branches, table, busiDB, fails, started, hist, lastEnd, pending>>

Next ==
    \/ \E c \in Calls, t \in Contexts : Begin(c, t)
    \/ \E c \in Calls : InsertOrigin(c)
    \/ \E c \in Calls : InsertCurrent(c)
    \/ \E c \in Calls : Query(c)
    \/ \E c \in Calls : Busi(c)
    \/ \E c \in Calls : Update(c)
    \/ \E c \in Calls : Defer(c)
    \/ \E c \in Calls : Return(c)

Spec == Init /\ [][Next]_vars

SpecFrame == InitFrame /\ [][Next]_vars

\* the statements of call c after BeginTx, and its return
Step(c) ==
    \/ InsertOrigin(c)
    \/ InsertCurrent(c)
    \/ Query(c)
    \/ Busi(c)
    \/ Update(c)
    \/ Defer(c)
    \/ Return(c)

\* every goroutine that is in a call gets to run, the store answers every
\* statement that it can answer, and busiCall returns
FairSpec == InitFair /\ [][Next]_vars /\ \A c \in Calls : WF_vars(Step(c))
\* --------------------------------------------------------- properties

Returned(c) == pc[c] = "done"
\* the call came back to its caller with a nil error
ReturnedNil(c) == Returned(c) /\ rerr[c] = Nil /\ panicked[c] = NoPanic
ForwardKeyOf(k) == Key(k.gid, k.branch_id, OriginType(k.branch_type))

\* C1: a call that starts after a call with the identical context ran
\* busiCall to a nil error and committed never runs busiCall
C1_NoReexecution ==
    \A c \in Calls : prior[c].ok # {} => invoked[c] = 0

C1_Witness ==
    \E c \in Calls : /\ prior[c].ok # {}
                     /\ Returned(c)
                     /\ txEnd[c] = <<"commit">>
                     /\ started = MaxCalls

\* C2: a call that starts after a call with the identical context returned R
\* and committed returns, when its error is nil, a result equal to R (stated
\* for the runs without any store error)
C2_ReplaySameResult ==
    \A c \in Calls : (fails = 0 /\ prior[c].ok # {} /\ ReturnedNil(c)) => res[c] \in prior[c].ok

\* C3: a forward call that starts after a compensating call of its branch
\* committed, no forward call having committed before, never runs busiCall
\* and, when its error is nil, returns the synthetic failure
C3_Suspension ==
    \A c \in Calls :
        prior[c].suspended =>
            /\ invoked[c] = 0
            /\ ReturnedNil(c) => res[c] = ResFailure

\* C4: while no forward call of the branch has committed, a compensating
\* call never runs busiCall, returns the synthetic success when its error
\* is nil, and once it has committed the forward slot exists with the
\* compensating branch type as its reason
C4_NullCompensation ==
    \A c \in Calls :
        (/\ pc[c] # "idle"
         /\ IsCompensating(ctx[c].BranchType)
         /\ OriginKey(ctx[c]) \notin committedKeys) =>
            /\ invoked[c] = 0
            /\ ReturnedNil(c) => res[c] = ResSuccess
            /\ persisted[c] => table[OriginKey(ctx[c])].reason = ctx[c].BranchType

\* C5: no branch has both a committed null compensation and a forward call
\* whose busiCall ran to a nil error and committed
C5_AntiSuspension ==
    \A k \in nullComps : okCommitted[ForwardKeyOf(k)] = {}

\* a forward call that raced with the null compensation and lost
C5_Witness ==
    \E c \in Calls :
        /\ IsForward(ctx[c].BranchType)
        /\ ~prior[c].suspended
        /\ \E k \in nullComps : ForwardKeyOf(k) = OwnKey(ctx[c])
        /\ Returned(c) /\ persisted[c]
        /\ res[c] = ResFailure

\* C6: when calls with the identical try context race and busiCall
\* succeeds, busiCall has run exactly once for the slot and every racing
\* call that returns a nil error and commits returns the result of that
\* one run (stated for the runs without any store error)
C6_MutualExclusion ==
    \A c \in Calls :
        (/\ ctx[c].BranchType = "try"
         /\ fails = 0
         /\ prior[c].ok = {}
         /\ ReturnedNil(c) /\ persisted[c]
         /\ okCommitted[OwnKey(ctx[c])] # {}) =>
            /\ okCount[OwnKey(ctx[c])] = 1
            /\ res[c] \in okCommitted[OwnKey(ctx[c])]

\* C7: for a slot no call is working on, the business effect of its call is
\* in the business tables if and only if the slot is in the barrier table
\* with a result
C7_AtomicPair ==
    \A k \in Keys :
        (\A c \in InFlight : OwnKey(ctx[c]) # k) =>
            (busiDB[k] > 0 <=> Valid(table[k].result))

\* C8: a compensating call that starts after the forward call of its branch
\* committed with its own reason gets 0 from the poison claim; it claims its
\* own slot unless the store fails or another call holds the slot; the call
\* that claimed the slot runs busiCall exactly once and returns what
\* busiCall returned
C8_GenuineCompensation ==
    \A c \in Calls :
        prior[c].fwdOwn =>
            /\ originAffected[c] = 0
            /\ (prior[c].first /\ pc[c] = "query") =>
                    (rerr[c] = StoreErr \/ table[OwnKey(ctx[c])] # NoRow)
            /\ (currentAffected[c] = 1 /\ pc[c] \in {"update", "defer", "done"}) =>
                    /\ invoked[c] = 1
                    /\ panicked[c] = NoPanic =>
                          \/ busiOut[c] = BusiErr /\ rerr[c] = BusiErr /\ res[c] = Nil
                          \/ busiOut[c] \in BusiResults /\ res[c] = busiOut[c]

C8_Witness ==
    \E c \in Calls :
        /\ prior[c].fwdOwn /\ prior[c].first
        /\ Returned(c) /\ persisted[c]
        /\ originAffected[c] = 0 /\ currentAffected[c] = 1
        /\ invoked[c] = 1
        /\ res[c] \in BusiResults

\* C9: a call that got a transaction ends it exactly once, when it returns:
\* with Commit if and only if its error is nil and nothing panicked, with
\* Rollback otherwise, and a panic is raised again with the same value
C9_UnitBoundary ==
    \A c \in Calls :
        /\ ~Returned(c) => txEnd[c] = <<>>
        /\ (Returned(c) /\ ~opened[c]) => (txEnd[c] = <<>> /\ rerr[c] # Nil)
        /\ (Returned(c) /\ opened[c]) =>
              /\ Len(txEnd[c]) = 1
              /\ txEnd[c][1] = "commit" <=> (rerr[c] = Nil /\ panicked[c] = NoPanic)
              /\ txEnd[c][1] = "rollback" <=> (rerr[c] # Nil \/ panicked[c] # NoPanic)
              /\ raised[c] = panicked[c]

C9_Witness ==
    \E c \in Calls :
        /\ Returned(c) /\ opened[c]
        /\ txEnd[c] = <<"rollback">>
        /\ raised[c] = MarshalPanic
        /\ \E d \in InFlight : ctx[d] = ctx[c]

\* C10: a call whose poison claim got a store error never runs busiCall and
\* returns a store error after rolling back
C10_PoisonClaimError ==
    \A c \in Calls :
        originErr[c] =>
            /\ invoked[c] = 0
            /\ Returned(c) => (rerr[c] = StoreErr /\ txEnd[c] = <<"rollback">>)

\* C11: a call whose busiCall returned an error returns that error, rolls
\* back and leaves no result in its slot; the retry that follows it, with no
\* other call in between, runs busiCall again unless it returns a store error
C11_CallbackErrorRetry ==
    \A c \in Calls :
        /\ (Returned(c) /\ busiOut[c] = BusiErr) =>
              /\ rerr[c] = BusiErr
              /\ txEnd[c] = <<"rollback">>
              /\ ~Valid(table[OwnKey(ctx[c])].result)
        /\ (Returned(c) /\ prior[c].retry = "busi error") =>
              (invoked[c] = 1 \/ rerr[c] = StoreErr)

\* C12: after a call whose busiCall returned an error has returned, its own
\* slot is in the table with an empty result
C12_SlotStaysClaimed ==
    \A c \in Calls :
        (Returned(c) /\ busiOut[c] = BusiErr) =>
            /\ table[OwnKey(ctx[c])] # NoRow
            /\ ~Valid(table[OwnKey(ctx[c])].result)

\* C12 amended: after a call whose busiCall returned an error has returned,
\* the claim of its own slot is rolled back: the table has no row at its key
C12_SlotReleased ==
    \A c \in Calls :
        (Returned(c) /\ busiOut[c] = BusiErr) =>
            /\ table[OwnKey(ctx[c])] = NoRow
            /\ pending[c] = NoPending
            /\ ~persisted[c]

C12_Witness ==
    \E c \in Calls :
        /\ Returned(c) /\ busiOut[c] = BusiErr /\ rerr[c] = BusiErr
        /\ currentAffected[c] = 1

\* C13: a call whose result cannot be marshalled rolls back, so that none of
\* its slot claims is in the table; the retry that follows it, with no other
\* call in between, runs busiCall again unless it returns a store error
C13_SerializationFailure ==
    \A c \in Calls :
        /\ (Returned(c) /\ panicked[c] = MarshalPanic) =>
              /\ txEnd[c] = <<"rollback">>
              /\ table[OwnKey(ctx[c])] = NoRow
              /\ originAffected[c] = 1 => table[OriginKey(ctx[c])] = NoRow
        /\ (Returned(c) /\ prior[c].retry = "marshal panic") =>
              (invoked[c] = 1 \/ rerr[c] = StoreErr)

\* C14: a row of the table is never deleted, its reason never changes and
\* its result, once written, never changes; inside a transaction the result
\* of a row goes from empty to populated at most once; an insert on a key
\* that has a row affects 0 rows, changes nothing and returns no error
C14_SlotImmutable ==
    [][/\ \A k \in Keys :
            table[k] # NoRow =>
                /\ table'[k] # NoRow
                /\ table'[k].reason = table[k].reason
                /\ table'[k].trans_type = table[k].trans_type
                /\ table'[k].result = table[k].result
       /\ \A c \in Calls, k \in Keys :
            (pending[c][k] # NoRow /\ pending'[c][k] # NoRow) =>
                /\ pending'[c][k].reason = pending[c][k].reason
                /\ Valid(pending[c][k].result) => pending'[c][k].result = pending[c][k].result
       /\ \A c \in Calls :
            (/\ pc[c] = "current" /\ pc'[c] # "current"
             /\ table[OwnKey(ctx[c])] # NoRow
             /\ fails' = fails) =>
                /\ currentAffected'[c] = 0
                /\ rerr'[c] = Nil
                /\ pending' = pending /\ table' = table
       /\ \A c \in Calls :
            (/\ pc[c] = "origin" /\ pc'[c] # "origin"
             /\ IsCompensating(ctx[c].BranchType)
             /\ table[OriginKey(ctx[c])] # NoRow
             /\ fails' = fails) =>
                /\ originAffected'[c] = 0
                /\ pending' = pending /\ table' = table
      ]_vars

\* an insert has met a row that holds a result
C14_Witness ==
    \E c \in Calls :
        /\ pc[c] = "query"
        /\ currentAffected[c] = 0 /\ rerr[c] = Nil
        /\ Valid(table[OwnKey(ctx[c])].result)

\* C15: a call whose own-slot claim or whose select got a store error never
\* runs busiCall, returns the store error and rolls back, so that nothing it
\* inserted is in the table
C15_OwnClaimOrLookupError ==
    \A c \in Calls :
        ownErr[c] =>
            /\ invoked[c] = 0
            /\ rerr[c] = StoreErr
            /\ Returned(c) =>
                  /\ txEnd[c] = <<"rollback">>
                  /\ ~persisted[c]
                  /\ pending[c] = NoPending
                  /\ originAffected[c] = 1 => table[OriginKey(ctx[c])] = NoRow

C15_Witness ==
    \E c \in Calls :
        /\ Returned(c) /\ ownErr[c]
        /\ originAffected[c] = 1

\* the keys a call with context t may write
FrameOf(t) ==
    {OwnKey(t)} \cup (IF IsCompensating(t.BranchType) THEN {OriginKey(t)} ELSE {})

\* C16: a call writes only the row of its own key and, when it is a cancel
\* or a compensate, the row of the try or action key of the same branch; for
\* every other branch type the first insertBarrier returns 0 and no error
\* without a statement on the store; rows of other branches and other
\* branch types stay as they are
C16_Frame ==
    [][/\ \A c \in Calls, k \in Keys :
            pending'[c][k] # pending[c][k] => k \in FrameOf(ctx[c])
       /\ \A k \in Keys :
            table'[k] # table[k] =>
                \E c \in Calls :
                    /\ pc[c] = "defer" /\ pc'[c] = "done"
                    /\ k \in FrameOf(ctx[c])
       /\ \A c \in Calls :
            (opened'[c] /\ ~opened[c] /\ ~IsCompensating(ctx'[c].BranchType)) =>
                /\ OriginType(ctx'[c].BranchType) = ""
                /\ pc'[c] = "current"
                /\ originAffected'[c] = 0
                /\ ~originErr'[c]
                /\ fails' = fails
                /\ pending' = pending /\ table' = table
      ]_vars

\* a cancel committed its two rows while the other branch has rows
C16_Witness ==
    \E c \in Calls :
        /\ Returned(c) /\ persisted[c]
        /\ ctx[c].BranchType = "cancel"
        /\ originAffected[c] = 1 /\ currentAffected[c] = 1
        /\ \E k \in Keys : k.branch_id # ctx[c].BranchID /\ table[k] # NoRow

\* the key of the insert that call c is at
ClaimKey(c) == IF pc[c] = "origin" THEN OriginKey(ctx[c]) ELSE OwnKey(ctx[c])
Claiming(c) == pc[c] \in {"origin", "current"}

Claimed(c) == pc[c] \in {"query", "busi", "update", "defer", "done"}

\* C18: in the table a cancel row comes with the try row of its branch and
\* a compensate row with the action row; and a call whose first insert
\* affected 1 row has its own insert affect 1 row too, unless that insert
\* returned an error
C18_NoPartialCompensation ==
    /\ \A k \in Keys :
          (IsCompensating(k.branch_type) /\ table[k] # NoRow) =>
              table[ForwardKeyOf(k)] # NoRow
    /\ \A c \in Calls :
          (Claimed(c) /\ originAffected[c] = 1 /\ ~ownErr[c]) => currentAffected[c] = 1

\* C19: in the table a row whose reason is not its own branch type has no
\* result; a try, action or confirm row with its own branch type as reason
\* has a result; a row with its own branch type as reason and no result is
\* the cancel or compensate row of a null compensation
C19_ResultVersusReason ==
    \A k \in Keys :
        table[k] # NoRow =>
            /\ table[k].reason # k.branch_type => ~Valid(table[k].result)
            /\ (table[k].reason = k.branch_type /\ k.branch_type \in {"try", "action", "confirm"}) =>
                  Valid(table[k].result)
            /\ (table[k].reason = k.branch_type /\ ~Valid(table[k].result)) =>
                  (IsCompensating(k.branch_type) /\ k \in nullComps)

\* a branch with a poisoned forward row, the row of the null compensation
\* and a confirm row
C19_Witness ==
    \E k \in nullComps :
        /\ table[k].reason = k.branch_type /\ ~Valid(table[k].result)
        /\ table[ForwardKeyOf(k)].reason = k.branch_type
        /\ \E j \in Keys : j.branch_type \in {"confirm", "action"} /\ Valid(table[j].result)

\* C20: a cancel or compensate that follows a try or action whose busiCall
\* returned an error (the only call of the branch so far, no other call
\* running meanwhile) does not run busiCall and returns the synthetic
\* success unless it returns a store error; a try or action that starts
\* after a null compensation of its branch committed does not run busiCall
\* and returns the synthetic failure when its error is nil
C20_CompensationAfterFailedForward ==
    \A c \in Calls :
        /\ prior[c].fwdErr =>
              /\ invoked[c] = 0
              /\ Returned(c) => (rerr[c] = StoreErr \/ (rerr[c] = Nil /\ res[c] = ResSuccess))
        /\ (/\ IsForward(ctx[c].BranchType)
            /\ prior[c].suspended
            /\ \E k \in nullComps : ForwardKeyOf(k) = OwnKey(ctx[c])) =>
              /\ invoked[c] = 0
              /\ ReturnedNil(c) => res[c] = ResFailure
====
